---- MODULE Spec2Model ----
(***************************************************************************)
(* Account onboarding of the issuing-treasury demo application:            *)
(*   POST /api/register   (expense-management/src/pages/api/register.ts)   *)
(*   POST /api/onboard    (the onboard handler)                            *)
(*   hasOutstandingRequirements, createAccountOnboardingUrl                *)
(*                        (the onboarding helpers)                         *)
(*                                                                         *)
(* Every request is handled by its own invocation of a handler.  A handler *)
(* runs from one await to the next without interruption; between awaits    *)
(* other requests may run.  One action below is one such stretch: the call *)
(* the handler awaits takes effect, and the handler runs on to its next    *)
(* call or to its response.                                                *)
(*                                                                         *)
(* The user store (prisma) and the payments provider (stripe) are shared   *)
(* by all requests.  stripe.accounts.create and prisma.user.create may     *)
(* fail; a failure propagates out of the handler as an unhandled error,    *)
(* which the framework answers with status 500.  The reads                 *)
(* (prisma.user.findFirst, stripe.accounts.retrieve) and the calls of      *)
(* onboard (stripe.accounts.update, stripe.accountLinks.create) are taken  *)
(* to return.                                                              *)
(***************************************************************************)
EXTENDS Integers, Sequences, FiniteSets, TLC

\* Number of requests handled in one run of the model.
MaxReq == 2
\* Longest requirements.currently_due list the provider reports.
MaxDue == 2

Reqs == 1..MaxReq

VARIABLES
    demoMode,      \* isDemoMode(): fixed at process start
    redirectBase,  \* process.env.CONNECT_ONBOARDING_REDIRECT_URL: <<>> when unset, <<s>> when set to s
    users,         \* rows of the User table
    accounts,      \* connected accounts held by the payments provider
    links,         \* account links the payments provider has created
    kind,          \* kind[r]: which operation request r is
    pc,            \* pc[r]: where the handler of request r stands
    body,          \* body[r]: req.body
    session,       \* session[r]: the session of an onboard request
    local,         \* local[r]: the handler's local constants (account, onboardingData, result)
    calls,         \* calls[r]: the calls to the store and the provider request r has issued, in order
    resp,          \* resp[r]: the response sent for request r
    before         \* before[r]: the requests already completed when r arrived (history)

vars == <<demoMode, redirectBase, users, accounts, links, kind, pc, body, session, local, calls, resp, before>>

----------------------------------------------------------------------------
\* Values

\* A value that is absent (undefined / null) is <<>>; a present value v is <<v>>.
Undefined == <<>>
Some(v) == <<v>>
IsDefined(o) == o # <<>>
\* JavaScript truthiness of an optional boolean.
Truthy(o) == IsDefined(o) /\ o[1]

NoBody == [none |-> TRUE]
NoSession == [none |-> TRUE]
NoLocal == [none |-> TRUE]
NoResp == [status |-> 0, success |-> FALSE, message |-> "", redirectUrl |-> ""]

\* apiResponse({ success, data?, error? }) sent with res.status(..).json(..)
Success(url) == [status |-> 200, success |-> TRUE, message |-> "", redirectUrl |-> url]
ClientError(msg) == [status |-> 400, success |-> FALSE, message |-> msg, redirectUrl |-> ""]
\* An error thrown out of the handler.
Unhandled(msg) == [status |-> 500, success |-> FALSE, message |-> msg, redirectUrl |-> ""]

----------------------------------------------------------------------------
\* Validation schemas (src/utils/validation_schemas)

Digits == {"0", "1", "2", "3", "4", "5", "6", "7", "8", "9"}
LowerCase == {"a", "b", "c", "d", "e", "f", "g", "h", "o", "r", "s", "w"}
UpperCase == {"A", "B", "P"}

MaxStrLen == 255
MinPasswordLen == 8

SupportedCountries == {"US", "GB", "FR"}

\* string().email(): a local part and a domain around the "@"
IsEmail(e) == e.local # "" /\ e.domain # ""

RECURSIVE JoinMessages(_)
JoinMessages(msgs) ==
    IF Len(msgs) = 0 THEN ""
    ELSE IF Len(msgs) = 1 THEN msgs[1]
    ELSE msgs[1] \o ", " \o JoinMessages(Tail(msgs))

Msg(cond, text) == IF cond THEN <<text>> ELSE <<>>

\* validationSchemas.user.validate({ email, password, country }, { abortEarly: false }):
\* every rule is evaluated; the result is the list of the messages of the rules violated.
UserSchemaErrors(b) ==
    Msg(~IsEmail(b.email), "Must be a valid email")
    \o Msg(Len(b.password) > MaxStrLen, "password must be at most 255 characters")
    \o Msg(Len(b.password) < MinPasswordLen, "Password must have at least 8 characters")
    \o Msg(~\E i \in 1..Len(b.password) : b.password[i] \in Digits,
           "Your password must have at least 1 digit character")
    \o Msg(~\E i \in 1..Len(b.password) : b.password[i] \in LowerCase,
           "Your password must have at least 1 lowercase character")
    \o Msg(~\E i \in 1..Len(b.password) : b.password[i] \in UpperCase,
           "Your password must have at least 1 uppercase character")
    \o Msg(b.country \notin SupportedCountries, "country must be a supported country")

\* validationSchemas.business.default / business.withOnbardingSkip:
\* businessName is required by both; only the demo variant declares skipOnboarding.
BusinessSchemaErrors(b) ==
    Msg(b.businessName = "", "Business name is required")

\* Whether the default (strict) variant rejects a body that carries the undeclared
\* skipOnboarding field is not fixed by the specification: both outcomes are allowed.
UnknownFieldErrors(demo, b) ==
    IF ~demo /\ IsDefined(b.skipOnboarding)
    THEN {<<>>, <<"skipOnboarding is not allowed">>}
    ELSE {<<>>}

----------------------------------------------------------------------------
\* Inputs

EmailA == [local |-> "ada", domain |-> "example.com"]
EmailB == [local |-> "bob", domain |-> "example.com"]
BadEmail == [local |-> "ada", domain |-> ""]

GoodPassword == <<"P", "a", "s", "s", "w", "0", "r", "d">>
WeakPassword == <<"a", "b", "c", "d", "e", "f", "g", "h">>
ShortPassword == <<"A", "b", "1">>

RegisterBodies ==
    { [email |-> EmailA, password |-> GoodPassword, country |-> "US"],
      [email |-> EmailA, password |-> GoodPassword, country |-> "GB"],
      [email |-> EmailB, password |-> GoodPassword, country |-> "FR"],
      [email |-> BadEmail, password |-> GoodPassword, country |-> "US"],
      [email |-> EmailA, password |-> WeakPassword, country |-> "US"],
      [email |-> EmailB, password |-> ShortPassword, country |-> "GB"],
      [email |-> EmailB, password |-> GoodPassword, country |-> "ZZ"] }

OnboardBodies ==
    [businessName : {"Acme", ""}, skipOnboarding : {Undefined, Some(TRUE), Some(FALSE)}]

FinancialProducts == {"embedded_finance", "expense_management"}
EmbeddedFinance == "embedded_finance"

\* Requirement names the provider reports in requirements.currently_due.
Requirements == {"external_account", "individual.id_number"}

RECURSIVE SeqsUpTo(_, _)
SeqsUpTo(S, n) ==
    IF n = 0 THEN {<<>>}
    ELSE LET shorter == SeqsUpTo(S, n - 1)
         IN shorter \cup {Append(s, x) : s \in shorter, x \in S}

\* What stripe.accounts.retrieve may answer, as far as hasOutstandingRequirements reads it:
\* no account, an account without requirements, requirements without currently_due,
\* or a currently_due list.
RetrievedAccounts ==
    {Undefined}
    \cup {Some([requirements |-> Undefined])}
    \cup {Some([requirements |-> Some([currently_due |-> Undefined])])}
    \cup {Some([requirements |-> Some([currently_due |-> Some(l)])]) :
            l \in SeqsUpTo(Requirements, MaxDue)}

----------------------------------------------------------------------------
\* Pure functions of the handlers

\* { ...a, ...b }: the fields of b override those of a.  Spreading a falsy value
\* (cond && {...} with cond false or undefined) adds nothing: Nothing.
Spread(a, b) == b @@ a
Nothing == <<>>
Has(obj, field) == field \in DOMAIN obj

\* getPlatform(country) (src/utils/platform): the tenant configuration of a country.
getPlatform(country) == [platform |-> country]

\* bcrypt.hash(password, 10)
Hash(password) == [bcrypt |-> password]

\* TOS_ACCEPTANCE (src/utils/demo-helpers): the fixed acceptance record.
TOS_ACCEPTANCE == [date |-> "fixed", ip |-> "fixed"]

\* The parameters of stripe.accounts.create in register.
AccountCreateParams(demo, email, country) ==
    Spread(
        Spread([type |-> "custom", country |-> country, email |-> email],
               IF demo
               THEN [business_type |-> "individual",
                     individual |-> [id_number |-> "000000000"]]
               ELSE Nothing),
        [capabilities |-> [transfers |-> [requested |-> TRUE],
                           card_issuing |-> [requested |-> TRUE]]])

\* Mutant of UserRow: the row does not link the account created.
UserRowWithoutAccount(email, password, accountId, country) ==
    [email |-> email, password |-> Hash(password), accountId |-> "", country |-> country]

\* The data of prisma.user.create in register.
UserRow(email, password, accountId, country) ==
    [email |-> email, password |-> Hash(password), accountId |-> accountId,
     country |-> country]

\* settings of the demo overlay of onboardingData
DemoSettings(financialProduct) ==
    Spread([card_issuing |-> [tos_acceptance |-> TOS_ACCEPTANCE]],
           IF financialProduct = EmbeddedFinance
           THEN [treasury |-> [tos_acceptance |-> TOS_ACCEPTANCE]]
           ELSE Nothing)

\* individual.address of the demo overlay of onboardingData
DemoAddress(country) ==
    Spread(
        Spread(
            Spread([line1 |-> "address_full_match"],
                   IF country = "US"
                   THEN [city |-> "South San Francisco", state |-> "CA",
                         postal_code |-> "94080"]
                   ELSE Nothing),
            IF country = "GB"
            THEN [city |-> "London", postal_code |-> "WC32 4AP"]
            ELSE Nothing),
        [country |-> country])

\* Mutant of RootTos: the overlay is added whenever the field is present, false included.
RootTosWhenPresent(skipOnboarding) ==
    IF IsDefined(skipOnboarding) THEN [tos_acceptance |-> TOS_ACCEPTANCE] ELSE Nothing

\* The root-level terms-of-service overlay: ...(skipOnboarding && { tos_acceptance })
RootTos(skipOnboarding) ==
    IF Truthy(skipOnboarding) THEN [tos_acceptance |-> TOS_ACCEPTANCE] ELSE Nothing

\* The demo overlay of onboardingData: ...(isDemoMode() && { ... })
DemoOverlay(businessName, skipOnboarding, email, country, financialProduct) ==
    Spread(
        Spread(
            [business_type |-> "individual",
             business_profile |-> [name |-> businessName, mcc |-> "5734",
                                   product_description |-> "Some demo product",
                                   url |-> "https://some-company.com"],
             company |-> [name |-> businessName, tax_id |-> "000000000"],
             individual |-> [address |-> DemoAddress(country),
                             dob |-> [day |-> 1, month |-> 1, year |-> 1901],
                             email |-> email,
                             first_name |-> "John",
                             last_name |-> "Smith",
                             phone |-> "2015550123"]],
            RootTos(skipOnboarding)),
        [settings |-> DemoSettings(financialProduct)])

\* onboardingData: the parameters of stripe.accounts.update in onboard.
OnboardingData(demo, businessName, skipOnboarding, email, country, financialProduct) ==
    Spread([business_profile |-> [name |-> businessName]],
           IF demo
           THEN DemoOverlay(businessName, skipOnboarding, email, country, financialProduct)
           ELSE Nothing)

\* Mutant of SkipsHostedOnboarding: the demo-mode test is inverted.
SkipsOutsideDemo(demo, skipOnboarding) == ~demo /\ Truthy(skipOnboarding)

\* Mutant of SkipsHostedOnboarding: the demo-mode test is missing.
SkipsWheneverRequested(demo, skipOnboarding) == Truthy(skipOnboarding)

\* Whether onboard answers with the application root instead of a hosted link.
SkipsHostedOnboarding(demo, skipOnboarding) == demo /\ Truthy(skipOnboarding)

IGNORE_REQUIREMENTS == {"external_account"}

\* Mutant of FilterIgnored: nothing is filtered out.
KeepAll(due) == due

\* requirement list .filter(r => !IGNORE_REQUIREMENTS.includes(r))
FilterIgnored(due) == SelectSeq(due, LAMBDA r : r \notin IGNORE_REQUIREMENTS)

\* account?.requirements?.currently_due?.filter(..).length ?? 0
OutstandingCount(account) ==
    IF ~IsDefined(account) THEN 0
    ELSE IF ~IsDefined(account[1].requirements) THEN 0
    ELSE IF ~IsDefined(account[1].requirements[1].currently_due) THEN 0
    ELSE Len(FilterIgnored(account[1].requirements[1].currently_due[1]))

\* The result of hasOutstandingRequirements for the account retrieved.
HasOutstanding(account) == OutstandingCount(account) > 0

\* Mutant of AccountLinkParams: the two urls are swapped.
AccountLinkParamsSwapped(account, base) ==
    [type |-> "account_onboarding", account |-> account,
     refresh_url |-> base \o "/", return_url |-> base \o "/onboard"]

\* The parameters of stripe.accountLinks.create in createAccountOnboardingUrl.
AccountLinkParams(account, base) ==
    [type |-> "account_onboarding", account |-> account,
     refresh_url |-> base \o "/onboard", return_url |-> base \o "/"]

----------------------------------------------------------------------------
\* State

Init ==
    /\ demoMode \in BOOLEAN
    /\ redirectBase \in {Undefined, Some("https://app.example")}
    /\ users = {}
    /\ accounts = <<>>
    /\ links = <<>>
    /\ kind = [r \in Reqs |-> "none"]
    /\ pc = [r \in Reqs |-> "idle"]
    /\ body = [r \in Reqs |-> NoBody]
    /\ session = [r \in Reqs |-> NoSession]
    /\ local = [r \in Reqs |-> NoLocal]
    /\ calls = [r \in Reqs |-> <<>>]
    /\ resp = [r \in Reqs |-> NoResp]
    /\ before = [r \in Reqs |-> {}]

\* Requests are numbered in the order they arrive.
Arrives(r) == pc[r] = "idle" /\ \A q \in Reqs : q < r => pc[q] # "idle"

\* Request r arrives as an operation of kind k.
Arrive(r, k) ==
    /\ Arrives(r)
    /\ kind' = [kind EXCEPT ![r] = k]
    /\ before' = [before EXCEPT ![r] = {q \in Reqs : pc[q] = "done"}]

Call(r, op, arg) == calls' = [calls EXCEPT ![r] = Append(@, [op |-> op, arg |-> arg])]
Respond(r, response) == resp' = [resp EXCEPT ![r] = response] /\ pc' = [pc EXCEPT ![r] = "done"]
Goto(r, label) == pc' = [pc EXCEPT ![r] = label] /\ UNCHANGED resp
\* What a step of a request that has already arrived leaves alone.
Running == UNCHANGED <<demoMode, redirectBase, kind, body, session, before>>

config == <<demoMode, redirectBase>>
remote == <<accounts, links>>

----------------------------------------------------------------------------
\* POST /api/register

\* Mutant of FindByEmail: the lookup never finds a row.
FindNothing(rows, email) == {}

\* prisma.user.findFirst({ where: { email } }): the rows found (none: null)
FindByEmail(rows, email) == {u \in rows : u.email = email}

\* The unique index on User.email: an insert of a second row for an email fails.
ViolatesUniqueEmail(rows, row) == \E u \in rows : u.email = row.email

\* Mutant of RegisterValidate: the validation error is dropped.
RegisterWithoutValidation(r, b) ==
    /\ Arrive(r, "register")
    /\ body' = [body EXCEPT ![r] = b]
    /\ Goto(r, "lookup")
    /\ UNCHANGED <<config, users, remote, session, local, calls>>

\* The request arrives and its body is validated.
RegisterValidate(r, b) ==
    /\ Arrive(r, "register")
    /\ body' = [body EXCEPT ![r] = b]
    /\ IF UserSchemaErrors(b) # <<>>
       THEN Respond(r, ClientError(JoinMessages(UserSchemaErrors(b))))
       ELSE Goto(r, "lookup")
    /\ UNCHANGED <<config, users, remote, session, local, calls>>

\* prisma.user.findFirst returns; "Account already exists" when a row is found.
RegisterLookup(r) ==
    /\ pc[r] = "lookup"
    /\ Call(r, "prisma.user.findFirst", body[r].email)
    /\ IF FindByEmail(users, body[r].email) # {}
       THEN Respond(r, ClientError("Account already exists"))
       ELSE Goto(r, "create")
    /\ UNCHANGED <<users, remote, local>> /\ Running

\* The account stripe.accounts.create adds, with the id the provider gives it.
NewAccount(params) ==
    [id |-> "acct_" \o ToString(Len(accounts) + 1), created |-> params, updated |-> Undefined]

\* stripe.accounts.create succeeds and returns the new account.
RegisterCreateAccount(r) ==
    /\ pc[r] = "create"
    /\ LET params == AccountCreateParams(demoMode, body[r].email, body[r].country)
           account == NewAccount(params)
       IN /\ Call(r, "stripe.accounts.create", [platform |-> getPlatform(body[r].country), params |-> params])
          /\ accounts' = Append(accounts, account)
          /\ local' = [local EXCEPT ![r] = [account |-> account.id]]
    /\ Goto(r, "insert")
    /\ UNCHANGED <<users, links>> /\ Running

\* stripe.accounts.create throws.
RegisterCreateAccountFails(r) ==
    /\ pc[r] = "create"
    /\ Call(r, "stripe.accounts.create",
            [platform |-> getPlatform(body[r].country),
             params |-> AccountCreateParams(demoMode, body[r].email, body[r].country)])
    /\ Respond(r, Unhandled("stripe.accounts.create failed"))
    /\ UNCHANGED <<users, remote, local>> /\ Running

\* The password is hashed and prisma.user.create inserts the row; success is answered.
RegisterInsertUser(r) ==
    /\ pc[r] = "insert"
    /\ LET row == UserRow(body[r].email, body[r].password, local[r].account, body[r].country)
       IN /\ Call(r, "prisma.user.create", row)
          /\ IF ViolatesUniqueEmail(users, row)
             THEN /\ Respond(r, Unhandled("Unique constraint failed on the fields: (email)"))
                  /\ UNCHANGED users
             ELSE /\ users' = users \cup {row}
                  /\ Respond(r, Success(""))
    /\ UNCHANGED <<remote, local>> /\ Running

\* prisma.user.create throws.
RegisterInsertUserFails(r) ==
    /\ pc[r] = "insert"
    /\ Call(r, "prisma.user.create",
            UserRow(body[r].email, body[r].password, local[r].account, body[r].country))
    /\ Respond(r, Unhandled("prisma.user.create failed"))
    /\ UNCHANGED <<users, remote, local>> /\ Running

----------------------------------------------------------------------------
\* POST /api/onboard

\* getSessionForServerSide(req, res): the session of the signed-in user.
SessionOf(u, financialProduct) ==
    [email |-> u.email, country |-> u.country, financialProduct |-> financialProduct,
     stripeAccount |-> [accountId |-> u.accountId, platform |-> getPlatform(u.country)]]

\* The request arrives, its session is read, its body is validated and
\* onboardingData is built.
OnboardValidate(r, u, financialProduct, b, unknown) ==
    /\ Arrive(r, "onboard")
    /\ body' = [body EXCEPT ![r] = b]
    /\ LET s == SessionOf(u, financialProduct)
           errors == BusinessSchemaErrors(b) \o unknown
       IN /\ session' = [session EXCEPT ![r] = s]
          /\ IF errors # <<>>
             THEN /\ Respond(r, ClientError(JoinMessages(errors)))
                  /\ UNCHANGED local
             ELSE /\ Goto(r, "update")
                  /\ local' = [local EXCEPT ![r] =
                       [onboardingData |->
                           OnboardingData(demoMode, b.businessName, b.skipOnboarding,
                                          s.email, s.country, s.financialProduct)]]
    /\ UNCHANGED <<config, users, remote, calls>>

\* What the provider holds after stripe.accounts.update(accountId, data).
UpdatedAccounts(accountId, data) ==
    [i \in 1..Len(accounts) |->
        IF accounts[i].id = accountId
        THEN [accounts[i] EXCEPT !.updated = Some(data)]
        ELSE accounts[i]]

\* stripe.accounts.update returns.  The handler answers "/" when onboarding is
\* skipped; otherwise createAccountOnboardingUrl throws when the redirect base
\* is not set, and else issues stripe.accountLinks.create.
OnboardUpdate(r) ==
    /\ pc[r] = "update"
    /\ Call(r, "stripe.accounts.update",
            [platform |-> session[r].stripeAccount.platform,
             accountId |-> session[r].stripeAccount.accountId,
             data |-> local[r].onboardingData])
    /\ accounts' = UpdatedAccounts(session[r].stripeAccount.accountId, local[r].onboardingData)
    /\ IF SkipsHostedOnboarding(demoMode, body[r].skipOnboarding)
       THEN Respond(r, Success("/"))
       ELSE IF ~IsDefined(redirectBase)
            THEN Respond(r, Unhandled("CONNECT_ONBOARDING_REDIRECT_URL is not set"))
            ELSE Goto(r, "link")
    /\ UNCHANGED <<users, links, local>> /\ Running

\* The link stripe.accountLinks.create adds, with the url the provider gives it.
NewLink(params) ==
    [params |-> params, url |-> "https://connect.stripe.example/setup/" \o ToString(Len(links) + 1)]

\* stripe.accountLinks.create returns the hosted onboarding url, which is answered.
OnboardCreateLink(r) ==
    /\ pc[r] = "link"
    /\ LET params == AccountLinkParams(session[r].stripeAccount, redirectBase[1])
           link == NewLink(params)
       IN /\ Call(r, "stripe.accountLinks.create", params)
          /\ links' = Append(links, link)
          /\ Respond(r, Success(link.url))
    /\ UNCHANGED <<users, accounts, local>> /\ Running

----------------------------------------------------------------------------
\* hasOutstandingRequirements(accountId)

\* stripe.accounts.retrieve answers with the account as the provider holds it
\* now; the result is computed from it.
Probe(r, i, account) ==
    /\ Arrive(r, "probe")
    /\ Call(r, "stripe.accounts.retrieve", accounts[i].id)
    /\ local' = [local EXCEPT ![r] = [retrieved |-> account, result |-> HasOutstanding(account)]]
    /\ pc' = [pc EXCEPT ![r] = "done"]
    /\ UNCHANGED <<config, users, remote, body, session, resp>>

----------------------------------------------------------------------------

Next ==
    \/ \E r \in Reqs, b \in RegisterBodies : RegisterValidate(r, b)
    \/ \E r \in Reqs : RegisterLookup(r)
    \/ \E r \in Reqs : RegisterCreateAccount(r)
    \/ \E r \in Reqs : RegisterCreateAccountFails(r)
    \/ \E r \in Reqs : RegisterInsertUser(r)
    \/ \E r \in Reqs : RegisterInsertUserFails(r)
    \/ \E r \in Reqs, u \in users, fp \in FinancialProducts, b \in OnboardBodies :
          \E unknown \in UnknownFieldErrors(demoMode, b) :
             OnboardValidate(r, u, fp, b, unknown)
    \/ \E r \in Reqs : OnboardUpdate(r)
    \/ \E r \in Reqs : OnboardCreateLink(r)
    \/ \E r \in Reqs, i \in 1..Len(accounts), a \in RetrievedAccounts :
          Probe(r, i, a)

Spec == Init /\ [][Next]_vars

----------------------------------------------------------------------------
\* Properties

Ops(r) == [i \in 1..Len(calls[r]) |-> calls[r][i].op]
Issued(r, op) == \E i \in 1..Len(calls[r]) : calls[r][i].op = op
Done(r) == pc[r] = "done"

Registers == {r \in Reqs : kind[r] = "register"}
Onboards == {r \in Reqs : kind[r] = "onboard"}
Probes == {r \in Reqs : kind[r] = "probe"}

InputEmails == {b.email : b \in RegisterBodies}
RowsFor(email) == {u \in users : u.email = email}
AccountsFor(email) == {i \in 1..Len(accounts) : accounts[i].created.email = email}

\* A register request whose body passes validation.
ValidRegister(r) == r \in Registers /\ UserSchemaErrors(body[r]) = <<>>
\* A register request that got past the lookup: no row for its email was found.
NotYetRegistered(r) == ValidRegister(r) /\ pc[r] \in {"create", "insert", "done"}
                          /\ resp[r] # ClientError("Account already exists")

\* C1: a register request with a valid body whose email had no User row, and whose
\* remote account creation and insert did not fail, is answered 200 success; it has
\* created exactly one remote account, and the store holds exactly one User row for
\* its email, whose accountId is the id of that account.
C1_RegisterCreatesUserForNewAccount ==
    \A r \in Registers :
        (NotYetRegistered(r) /\ Done(r) /\ resp[r].status # 500) =>
            /\ resp[r] = Success("")
            /\ Ops(r) = <<"prisma.user.findFirst", "stripe.accounts.create", "prisma.user.create">>
            /\ \E i \in AccountsFor(body[r].email) :
                  /\ accounts[i].id = local[r].account
                  /\ accounts[i].created.country = body[r].country
                  /\ \A q \in Registers \ {r} :
                        Has(local[q], "account") => local[q].account # accounts[i].id
            /\ Cardinality(RowsFor(body[r].email)) = 1
            /\ \A u \in RowsFor(body[r].email) :
                  /\ u.accountId = local[r].account
                  /\ u.country = body[r].country
                  /\ u.password = [bcrypt |-> body[r].password]

C1_Witness ==
    \E r \in Registers : Done(r) /\ resp[r].status = 200 /\ Len(accounts) = 1

\* C2: a register request that arrives after a register request for the same
\* email was answered with success is answered 400 "Account already exists";
\* it issues the lookup only: no remote account creation and no insert.
C2_SecondCallRejected ==
    \A r \in Registers : \A q \in before[r] \cap Registers :
        (ValidRegister(r) /\ resp[q].status = 200 /\ body[q].email = body[r].email) =>
            /\ \A i \in 1..Len(calls[r]) : calls[r][i].op = "prisma.user.findFirst"
            /\ Done(r) =>
                  /\ resp[r] = ClientError("Account already exists")
                  /\ Ops(r) = <<"prisma.user.findFirst">>
                  /\ RowsFor(body[r].email) =
                        {u \in users : u.accountId = local[q].account}

\* The step that answers "Account already exists" changes neither the User rows
\* nor the remote accounts.
C2_RejectionChangesNothing ==
    \A r \in Registers :
        (pc[r] = "lookup" /\ pc'[r] = "done") => UNCHANGED <<users, accounts, links>>

\* C2: the second call for an email already registered is answered 400 "Account
\* already exists", creates no remote account and inserts no row, and leaves the
\* remote accounts and the User rows as they were.
C2_DuplicateRegistrationRejected ==
    []C2_SecondCallRejected /\ [][C2_RejectionChangesNothing]_vars

C2_Witness ==
    \E r \in Registers : \E q \in before[r] \cap Registers :
        /\ resp[q].status = 200
        /\ body[q].email = body[r].email
        /\ Done(r)
        /\ resp[r].status = 400

\* C3: whenever no register request stands between its remote account creation
\* and its insert, a User row exists for an email if and only if a remote account
\* creation has succeeded for that email.
C3_UserRowIffRemoteAccount ==
    (\A r \in Registers : pc[r] # "insert") =>
        \A e \in InputEmails : (RowsFor(e) # {}) <=> (AccountsFor(e) # {})

\* C4: a request whose body fails validation is answered 400 with a message before
\* anything else happens: it issues no call to the store or the provider.
C4_InvalidBodyRejected ==
    /\ \A r \in Registers :
          UserSchemaErrors(body[r]) # <<>> =>
              /\ Done(r)
              /\ resp[r].status = 400 /\ ~resp[r].success /\ resp[r].message # ""
              /\ calls[r] = <<>>
    /\ \A r \in Onboards :
          /\ BusinessSchemaErrors(body[r]) # <<>> => resp[r].status = 400
          /\ resp[r].status = 400 =>
              /\ Done(r)
              /\ ~resp[r].success /\ resp[r].message # ""
              /\ calls[r] = <<>>

\* The step in which a request arrives and is rejected changes nothing the store
\* or the provider holds.
C4_RejectionChangesNothing ==
    \A r \in Reqs :
        (pc[r] = "idle" /\ resp'[r].status = 400) => UNCHANGED <<users, accounts, links>>

\* C4: for both handlers a body that fails validation is answered 400 with a
\* message before any call is issued, and the rejection changes nothing the store
\* or the provider holds.
C4_InvalidBodyRejectedBeforeSideEffects ==
    []C4_InvalidBodyRejected /\ [][C4_RejectionChangesNothing]_vars

\* A registered user's onboard request with an empty business name has been rejected.
C4_Witness ==
    \E r \in Onboards :
        /\ BusinessSchemaErrors(body[r]) # <<>>
        /\ resp[r].status = 400
        /\ \E q \in before[r] \cap Registers : resp[q].status = 200

\* The update call request r has issued, if any, and the link calls.
UpdateCalls(r) == {i \in 1..Len(calls[r]) : calls[r][i].op = "stripe.accounts.update"}
LinkCalls(r) == {i \in 1..Len(calls[r]) : calls[r][i].op = "stripe.accountLinks.create"}

\* An onboard request whose body passed validation.
ValidOnboard(r) == r \in Onboards /\ resp[r].status # 400

\* C5: in demo mode, an onboard request that passes validation with skipOnboarding
\* true submits the account update for the session's account id and is then
\* answered 200 with redirectUrl "/"; it never issues an account link creation.
C5_DemoSkipBypassesHostedOnboarding ==
    \A r \in Onboards :
        (demoMode /\ ValidOnboard(r) /\ body[r].skipOnboarding = Some(TRUE)) =>
            /\ LinkCalls(r) = {}
            /\ pc[r] \in {"update", "done"}
            /\ pc[r] = "update" => calls[r] = <<>>
            /\ Done(r) =>
                  /\ Ops(r) = <<"stripe.accounts.update">>
                  /\ calls[r][1].arg.accountId = session[r].stripeAccount.accountId
                  /\ resp[r] = [status |-> 200, success |-> TRUE, message |-> "",
                                redirectUrl |-> "/"]

C5_Witness ==
    \E r \in Onboards :
        demoMode /\ body[r].skipOnboarding = Some(TRUE) /\ Done(r) /\ resp[r].status = 200

\* C6: outside demo mode whatever skipOnboarding is, and in demo mode with
\* skipOnboarding absent or false, an onboard request answered with success has
\* issued the account update and then the account link creation, and its
\* redirectUrl is the url of that link, never "/".
C6_NoBypassOutsideDemoSkip ==
    \A r \in Onboards :
        (resp[r].success /\ (~demoMode \/ body[r].skipOnboarding \in {Undefined, Some(FALSE)})) =>
            /\ Ops(r) = <<"stripe.accounts.update", "stripe.accountLinks.create">>
            /\ resp[r].status = 200
            /\ resp[r].redirectUrl # "/"
            /\ \E i \in 1..Len(links) :
                  /\ links[i].url = resp[r].redirectUrl
                  /\ links[i].params = calls[r][2].arg
                  /\ links[i].params.account = session[r].stripeAccount
                  /\ \A j \in 1..Len(links) : j # i => links[j].url # links[i].url

C6_Witness ==
    \E r \in Onboards :
        ~demoMode /\ body[r].skipOnboarding = Some(TRUE) /\ resp[r].success

\* C7: hasOutstandingRequirements returns true exactly when the currently_due list
\* of the account retrieved has an entry other than "external_account", and false
\* when the account, its requirements or the list is absent; it issues the retrieve
\* call only and changes nothing the store or the provider holds.
DueOf(account) ==
    IF account = Undefined THEN <<>>
    ELSE IF account[1].requirements = Undefined THEN <<>>
    ELSE IF account[1].requirements[1].currently_due = Undefined THEN <<>>
    ELSE account[1].requirements[1].currently_due[1]

C7_ResultOfProbe ==
    \A r \in Probes :
        /\ local[r].result <=>
              \E i \in 1..Len(DueOf(local[r].retrieved)) :
                  DueOf(local[r].retrieved)[i] # "external_account"
        /\ Ops(r) = <<"stripe.accounts.retrieve">>
        /\ Done(r) /\ resp[r] = NoResp

C7_ProbeChangesNothing ==
    \A r \in Reqs :
        (pc[r] = "idle" /\ kind'[r] = "probe") => UNCHANGED <<users, accounts, links>>

\* C7: the result of hasOutstandingRequirements is true exactly when a requirement
\* other than "external_account" is currently due; the probe issues the retrieve
\* call only and changes no state.
C7_HasOutstandingRequirements == []C7_ResultOfProbe /\ [][C7_ProbeChangesNothing]_vars

C7_Witness ==
    \E r \in Probes :
        /\ DueOf(local[r].retrieved) = <<"external_account">>
        /\ ~local[r].result

\* C8: while CONNECT_ONBOARDING_REDIRECT_URL is not set, no account link creation is
\* issued, and an onboard request that reaches the hosted-link step is answered with
\* the configuration error, never with success; when it is set, every account link
\* is requested with refresh url base + "/onboard" and return url base + "/".
ReachedLinkStep(r) ==
    /\ ValidOnboard(r)
    /\ Issued(r, "stripe.accounts.update")
    /\ ~(demoMode /\ Truthy(body[r].skipOnboarding))

C8_RedirectBaseRequired ==
    /\ redirectBase = Undefined =>
          /\ links = <<>>
          /\ \A r \in Onboards :
                /\ LinkCalls(r) = {}
                /\ ReachedLinkStep(r) =>
                      /\ Done(r)
                      /\ resp[r].status = 500 /\ ~resp[r].success /\ resp[r].redirectUrl = ""
                      /\ resp[r].message = "CONNECT_ONBOARDING_REDIRECT_URL is not set"
    /\ redirectBase = Some("https://app.example") =>
          /\ \A r \in Onboards : \A i \in LinkCalls(r) :
                /\ calls[r][i].arg.refresh_url = "https://app.example/onboard"
                /\ calls[r][i].arg.return_url = "https://app.example/"
          /\ \A r \in Onboards : (ReachedLinkStep(r) /\ Done(r)) => LinkCalls(r) # {}

C8_Witness ==
    \E r \in Onboards :
        redirectBase = Undefined /\ ReachedLinkStep(r) /\ Done(r)

\* Where a payload carries the terms-of-service acceptance record.
RootTosIn(data) ==
    Has(data, "tos_acceptance") /\ data.tos_acceptance = TOS_ACCEPTANCE
CardIssuingTosIn(data) ==
    /\ Has(data, "settings")
    /\ Has(data.settings, "card_issuing")
    /\ data.settings.card_issuing = [tos_acceptance |-> TOS_ACCEPTANCE]
TreasuryTosIn(data) ==
    /\ Has(data, "settings")
    /\ Has(data.settings, "treasury")
    /\ data.settings.treasury = [tos_acceptance |-> TOS_ACCEPTANCE]

\* The account-update payloads request r has built or sent.
Payloads(r) ==
    {local[r].onboardingData} \cup {calls[r][i].arg.data : i \in UpdateCalls(r)}

\* C9 as claimed: the payload carries the acceptance record exactly when
\* skipOnboarding is requested in demo mode: then at the root, in
\* settings.card_issuing, and in settings.treasury iff the financial product is
\* Embedded Finance; otherwise in none of the three places.
C9_TosOnlyWhenSkipping ==
    \A r \in Onboards : ValidOnboard(r) => \A data \in Payloads(r) :
        IF demoMode /\ Truthy(body[r].skipOnboarding)
        THEN /\ RootTosIn(data)
             /\ CardIssuingTosIn(data)
             /\ TreasuryTosIn(data) <=> session[r].financialProduct = EmbeddedFinance
        ELSE ~RootTosIn(data) /\ ~CardIssuingTosIn(data) /\ ~TreasuryTosIn(data)

\* C9 as amended: the payload carries the acceptance record at the root exactly
\* when skipOnboarding is requested in demo mode; in settings.card_issuing exactly
\* when demo mode is on; in settings.treasury exactly when demo mode is on and the
\* financial product is Embedded Finance.  The payload sent is the payload built.
C9_TosPlacement ==
    \A r \in Onboards : ValidOnboard(r) =>
        /\ \A data \in Payloads(r) :
              /\ RootTosIn(data) <=> (demoMode /\ body[r].skipOnboarding = Some(TRUE))
              /\ CardIssuingTosIn(data) <=> demoMode
              /\ TreasuryTosIn(data) <=>
                    (demoMode /\ session[r].financialProduct = "embedded_finance")
              /\ ~demoMode => data = [business_profile |-> [name |-> body[r].businessName]]
        /\ Cardinality(Payloads(r)) = 1

\* In demo mode a payload without skipOnboarding has been sent, and it carries the
\* acceptance record in settings.card_issuing.
C9_Witness ==
    \E r \in Onboards :
        /\ demoMode /\ ~Truthy(body[r].skipOnboarding)
        /\ \E i \in UpdateCalls(r) : CardIssuingTosIn(calls[r][i].arg.data)

\* C10: for each email at most one remote account has been created and at most one
\* User row exists, however the register requests for it interleave.
C10_AtMostOneAccountAndRowPerEmail ==
    \A e \in InputEmails :
        /\ Cardinality(AccountsFor(e)) <= 1
        /\ Cardinality(RowsFor(e)) <= 1

====
